---- MODULE Spec2Model ----
(***************************************************************************)
(* Model of tools/createExamples_h5.py: the openPMD example writer.        *)
(*                                                                         *)
(* An HDF5 file is a tree: a function from paths to nodes.  A path is the  *)
(* sequence of its segments ("/data/0/fields/rho" is                       *)
(* <<"data","0","fields","rho">>, the root group "/" is <<>>); a string    *)
(* that holds a path ("/data/0/", "fields/", "E/") is the sequence of the  *)
(* segments it holds, so that Python's + on such strings is \o.  A node    *)
(* is a group or a dataset and carries named attributes.                   *)
(*                                                                         *)
(* A floating-point number is modelled by the integer count n of a fixed   *)
(* power-of-two unit it holds (for np.random.rand's doubles in [0,1) the   *)
(* unit is 2^-53).  Every |n| < 2^53 is a double; only those with at most  *)
(* 24 significant bits are single-precision numbers, and a store into an   *)
(* 'f4' dataset rounds to those (ToF4).                                    *)
(***************************************************************************)
EXTENDS Integers, Sequences, FiniteSets, TLC

VARIABLES
    pc,      \* position of the caller: "lib" (a caller of the functions) or a line of __main__
    f,       \* the h5py.File handle: "none", "open" or "closed"
    tree,    \* the content of the file behind the handle
    disk,    \* example.h5 on disk: <<>> when absent, <<t>> when it holds tree t
    call,    \* the last call of a function of the module: its name, arguments and outcome
    locals,  \* the arrays __main__ holds (data_rho0, data_rho1, data_ex, data_ey, data_ez)
    out,     \* what was printed
    trace    \* the file operations __main__ has performed, in order

vars == <<pc, f, tree, disk, call, locals, out, trace>>

-----------------------------------------------------------------------------
(* Bounds of the model *)

MaxDim == 2
MaxSeed == 1
MaxIter == 1

(* Constants of the program *)

F4Bits == 24
MainH == 32
MainW == 64
NParticles == 128
UnitDimensionLen == 7

-----------------------------------------------------------------------------
(* Numbers *)

RECURSIVE Pow2(_)
Pow2(e) == IF e = 0 THEN 1 ELSE 2 * Pow2(e - 1)

RECURSIVE BitLen(_)
BitLen(n) == IF n = 0 THEN 0 ELSE 1 + BitLen(n \div 2)

\* numpy's conversion of a double to dtype 'f4': round to 24 significant bits,
\* ties to the even mantissa.
ToF4(n) ==
    LET a == IF n < 0 THEN -n ELSE n
        e == BitLen(a) - F4Bits
        q == Pow2(e)
        m == a \div q
        r == a - m * q
        rounded == IF e <= 0 THEN a
                   ELSE IF 2 * r < q THEN m * q
                   ELSE IF 2 * r > q THEN (m + 1) * q
                   ELSE IF m % 2 = 0 THEN m * q
                   ELSE (m + 1) * q
    IN  IF n < 0 THEN -rounded ELSE rounded

\* "%d" % iteration
FmtD(n) == <<"0", "1", "2", "3", "4", "5", "6", "7", "8", "9">>[n + 1]

-----------------------------------------------------------------------------
(* Arrays: [shape, data], data a function of the 0-based index tuple *)

Idx(shape) ==
    IF Len(shape) = 1 THEN {<<i>> : i \in 0..(shape[1] - 1)}
    ELSE IF Len(shape) = 2 THEN (0..(shape[1] - 1)) \X (0..(shape[2] - 1))
    ELSE (0..(shape[1] - 1)) \X (0..(shape[2] - 1)) \X (0..(shape[3] - 1))

Zeros(shape) == [idx \in Idx(shape) |-> 0]

\* Sample values: doubles that are single-precision numbers (1, 0, 3), and
\* doubles that are not (2^24 + 1, 2^24 + 3, -(2^24 + 5)).
Vals == <<16777217, 1, 16777219, 0, 3, -16777221>>

\* What np.random.rand returns lies in [0, 1): no negative values.
RandVals == <<16777217, 1, 16777219, 0, 3>>

Pick(vals, k) == vals[(k % Len(vals)) + 1]

\* The k-th real array of a shape: a different value in neighbouring cells.
Arr(shape, k) ==
    [shape |-> shape,
     data  |-> [idx \in Idx(shape) |-> Pick(Vals, k + idx[1] * shape[2] + idx[2])]]

\* The k-th complex array of a shape.
CArr(shape, k) ==
    [shape |-> shape,
     data  |-> [idx \in Idx(shape) |->
                  [re |-> Pick(Vals, k + 1 + idx[1] * shape[2] + idx[2]),
                   im |-> Pick(Vals, k + 2 + idx[1] * shape[2] + idx[2])]]]

\* np.random.rand(h, w), for the k-th state of the generator
Rand(shape, k) ==
    [shape |-> shape,
     data  |-> [idx \in Idx(shape) |-> Pick(RandVals, k + idx[1] * shape[2] + idx[2])]]

\* a + 1.j * b
Complex(a, b) ==
    [shape |-> a.shape,
     data  |-> [idx \in DOMAIN a.data |-> [re |-> a.data[idx], im |-> b.data[idx]]]]

Shapes == {<<h, w>> : h \in 1..MaxDim, w \in 1..MaxDim}
Seeds == 0..MaxSeed
Iterations == 0..MaxIter

\* Shapes a caller may pass beside shape s: s itself, and s with another width.
ShapesNear(s) == {s, <<s[1], (s[2] % MaxDim) + 1>>}

\* datetime.datetime.now(tzlocal()).strftime('%Y-%m-%d %H:%M:%S %z')
Dates == {"2015-06-01 12:00:00 +0200", "2015-06-01 12:00:01 +0200"}

-----------------------------------------------------------------------------
(* The h5py file tree *)

NoAttrs == [x \in {} |-> 0]

Group == [kind |-> "group", shape |-> <<>>, data |-> <<>>, attrs |-> NoAttrs]

Dataset(shape) == [kind |-> "dataset", shape |-> shape, data |-> Zeros(shape), attrs |-> NoAttrs]

\* h5.File(name, "w"): an empty file holds the root group only
EmptyFile == (<<>> :> Group)

Ancestors(p) == {SubSeq(p, 1, k) : k \in 0..(Len(p) - 1)}

Parent(p) == SubSeq(p, 1, Len(p) - 1)

\* h5py refuses to create a node whose name exists, or below a dataset
CanCreate(t, p) ==
    /\ p \notin DOMAIN t
    /\ \A q \in Ancestors(p) : q \in DOMAIN t => t[q].kind = "group"

\* h5py creates the missing intermediate groups of a path
WithAncestors(t, p) ==
    [q \in DOMAIN t \cup Ancestors(p) |-> IF q \in DOMAIN t THEN t[q] ELSE Group]

OK == "OK"
NameExists == "ValueError: unable to create (name already exists)"

\* f.create_dataset(path, shape, dtype='f4'): a zero-filled dataset
create_dataset(t, p, shape) ==
    IF CanCreate(t, p)
    THEN [tree |-> (p :> Dataset(shape)) @@ WithAncestors(t, p), res |-> OK]
    ELSE [tree |-> t, res |-> NameExists]

\* f.create_group(path)
create_group(t, p) ==
    IF CanCreate(t, p)
    THEN [tree |-> (p :> Group) @@ WithAncestors(t, p), res |-> OK]
    ELSE [tree |-> t, res |-> NameExists]

\* f[path].attrs[name] = value, for each name of the record new
SetAttrs(t, p, new) == [t EXCEPT ![p].attrs = new @@ @]

HasAttr(t, p, name) == p \in DOMAIN t /\ name \in DOMAIN t[p].attrs

-----------------------------------------------------------------------------
(* setup_root_attr *)

KeyError == "KeyError"
ShapeMismatch == "ValueError: mode0 and mode1 should have the same shape"
NameErrorParticles == "NameError: addEDPICAttrParticles is not defined"

RootAttrs(iteration, date) ==
    [version           |-> "1.0.0",
     basePath          |-> <<"data", FmtD(iteration)>>,
     fieldsPath        |-> <<"fields">>,
     particlesPath     |-> <<"particles">>,
     iterationEncoding |-> "fileBased",
     iterationFormat   |-> "/data/%T/",
     author            |-> "Axel Huebl <a.huebl@hzdr.de>",
     software          |-> "OpenPMD Example Script",
     date              |-> date,
     comment           |-> "This is a dummy file for test purposes."]

setup_root_attr(t, iteration, date) ==
    [tree |-> SetAttrs(t, <<>>, RootAttrs(iteration, date)), res |-> OK]

\* Mutant: the path attributes read with defaults (attrs.get) where the root
\* does not carry them.
PathUnderDefaults(t, sub) ==
    [res  |-> OK,
     path |-> (IF HasAttr(t, <<>>, "basePath") THEN t[<<>>].attrs["basePath"]
               ELSE <<"data", "0">>)
              \o (IF HasAttr(t, <<>>, sub) THEN t[<<>>].attrs[sub]
                  ELSE IF sub = "fieldsPath" THEN <<"fields">> ELSE <<"particles">>)]

\* Mutant: the base path left out of the path.
PathUnderNoBase(t, sub) ==
    IF HasAttr(t, <<>>, "basePath") /\ HasAttr(t, <<>>, sub)
    THEN [res |-> OK, path |-> t[<<>>].attrs[sub]]
    ELSE [res |-> KeyError, path |-> <<>>]

\* f.attrs["basePath"] + f.attrs[sub], sub one of "fieldsPath" and
\* "particlesPath": reading an attribute the root does not carry raises KeyError.
PathUnder(t, sub) ==
    IF HasAttr(t, <<>>, "basePath") /\ HasAttr(t, <<>>, sub)
    THEN [res |-> OK, path |-> t[<<>>].attrs["basePath"] \o t[<<>>].attrs[sub]]
    ELSE [res |-> KeyError, path |-> <<>>]

-----------------------------------------------------------------------------
(* add_EDPIC_attr_fields, add_EDPIC_attr_particles *)

EDPICFieldAttrs ==
    [fieldSolver      |-> "Yee",
     fieldSolverOrder |-> "2.0",
     fieldSmoothing   |-> "none",
     currentSmoothing |-> "none",
     chargeCorrection |-> "none"]

add_EDPIC_attr_fields(t, fieldName) == SetAttrs(t, fieldName, EDPICFieldAttrs)

EDPICParticleAttrs ==
    [particleShape         |-> "3.0",
     currentDeposition     |-> "Esirkepov",
     particlePush          |-> "Boris",
     particleInterpolation |-> "Trilinear",
     particleSmoothing     |-> "none"]

add_EDPIC_attr_particles(t, particleName) == SetAttrs(t, particleName, EDPICParticleAttrs)

\* The names the module defines: what a call by name finds in its globals.
ModuleGlobals ==
    {"setup_root_attr", "write_rho_cylindrical", "write_e_2d_cartesian",
     "add_EDPIC_attr_fields", "add_EDPIC_attr_particles", "write_particles"}

-----------------------------------------------------------------------------
(* write_rho_cylindrical *)

RhoAttrs ==
    [geometry           |-> "cylindrical",
     geometryParameters |-> "m=1; imag=+",
     unitSI             |-> "1.0",
     unitDimension      |-> <<"-3.0", "0.0", "1.0", "1.0", "0.0", "0.0", "0.0">>,
     time               |-> "0.",
     timeUnitSI         |-> "1.e-9",
     gridSpacing        |-> <<"1.0", "1.0">>,
     gridGlobalOffset   |-> <<"0.0", "0.0">>,
     position           |-> <<"0.0", "0.0">>,
     gridUnitSI         |-> "1.0",
     dataOrder          |-> "C"]

\* Mutant: the real and the imaginary part of mode 1 stored in each other's layer.
StoreRhoSwapped(data, mode0, mode1) ==
    [idx \in DOMAIN data |->
        IF idx[1] = 0 THEN ToF4(mode0.data[<<idx[2], idx[3]>>])
        ELSE IF idx[1] = 1 THEN ToF4(mode1.data[<<idx[2], idx[3]>>].im)
        ELSE ToF4(mode1.data[<<idx[2], idx[3]>>].re)]

\* f[full_rho_path][0,:,:] = mode0[:,:]; [1,:,:] = mode1[:,:].real; [2,:,:] = mode1[:,:].imag
StoreRho(data, mode0, mode1) ==
    [idx \in DOMAIN data |->
        IF idx[1] = 0 THEN ToF4(mode0.data[<<idx[2], idx[3]>>])
        ELSE IF idx[1] = 1 THEN ToF4(mode1.data[<<idx[2], idx[3]>>].re)
        ELSE ToF4(mode1.data[<<idx[2], idx[3]>>].im)]

\* The shape of the dataset: the first axis has size 2m+1
RhoShape(mode0) == <<3, mode0.shape[1], mode0.shape[2]>>

\* The statements after the dataset exists: the attributes, then the check
\* of the shapes, then the data.
RhoFill(t, p, mode0, mode1) ==
    LET t1 == add_EDPIC_attr_fields(SetAttrs(t, p, RhoAttrs), p)
    IN  IF mode0.shape # mode1.shape
        THEN [tree |-> t1, res |-> ShapeMismatch]
        ELSE [tree |-> [t1 EXCEPT ![p].data = StoreRho(@, mode0, mode1)], res |-> OK]

write_rho_cylindrical(t, mode0, mode1) ==
    IF PathUnder(t, "fieldsPath").res # OK
    THEN [tree |-> t, res |-> PathUnder(t, "fieldsPath").res]
    ELSE LET full_rho_path == PathUnder(t, "fieldsPath").path \o <<"rho">>
             c == create_dataset(t, full_rho_path, RhoShape(mode0))
         IN  IF c.res # OK THEN c
             ELSE RhoFill(c.tree, full_rho_path, mode0, mode1)

-----------------------------------------------------------------------------
(* write_e_2d_cartesian *)

EGroupAttrs ==
    [geometry         |-> "cartesian",
     gridSpacing      |-> <<"1.0", "1.0">>,
     gridGlobalOffset |-> <<"0.0", "0.0">>,
     gridUnitSI       |-> "1.0",
     dataOrder        |-> "C",
     unitDimension    |-> <<"1.0", "1.0", "-3.0", "-1.0", "0.0", "0.0", "0.0">>]

ETimeAttrs == [time |-> "0.", timeUnitSI |-> "1.e-9"]

\* Mutant: the positions of x and y taken for each other.
EPositionSwapped(comp) ==
    IF comp = "x" THEN <<"0.5", "0.0">>
    ELSE IF comp = "y" THEN <<"0.0", "0.5">>
    ELSE <<"0.0", "0.0">>

\* The staggered position of a component within a cell
EPosition(comp) ==
    IF comp = "x" THEN <<"0.0", "0.5">>
    ELSE IF comp = "y" THEN <<"0.5", "0.0">>
    ELSE <<"0.0", "0.0">>

\* f[path][:,:] = data[:,:]
Store2D(data, a) == [idx \in DOMAIN data |-> ToF4(a.data[idx])]

\* The three datasets, created in the order x, y, z; the first failure ends the call.
ECreate(t, p, data_ex, data_ey, data_ez) ==
    LET cx == create_dataset(t, p \o <<"x">>, data_ex.shape)
        cy == IF cx.res = OK THEN create_dataset(cx.tree, p \o <<"y">>, data_ey.shape) ELSE cx
        cz == IF cy.res = OK THEN create_dataset(cy.tree, p \o <<"z">>, data_ez.shape) ELSE cy
    IN  cz

\* The metadata of the group: common attributes, PIC attributes, time.
EGroupMeta(t, p) == SetAttrs(add_EDPIC_attr_fields(SetAttrs(t, p, EGroupAttrs), p), p, ETimeAttrs)

\* The attribute that is specific to each dataset
EComponentMeta(t, p) ==
    LET tx == SetAttrs(t, p \o <<"x">>, [position |-> EPosition("x")])
        ty == SetAttrs(tx, p \o <<"y">>, [position |-> EPosition("y")])
    IN  SetAttrs(ty, p \o <<"z">>, [position |-> EPosition("z")])

\* Mutant: data_ex stored in E/y and data_ey in E/x.
EFillSwapped(t, p, data_ex, data_ey, data_ez) ==
    [t EXCEPT ![p \o <<"x">>].data = Store2D(@, data_ey),
              ![p \o <<"y">>].data = Store2D(@, data_ex),
              ![p \o <<"z">>].data = Store2D(@, data_ez)]

\* Fill the arrays with the field data
EFill(t, p, data_ex, data_ey, data_ez) ==
    [t EXCEPT ![p \o <<"x">>].data = Store2D(@, data_ex),
              ![p \o <<"y">>].data = Store2D(@, data_ey),
              ![p \o <<"z">>].data = Store2D(@, data_ez)]

write_e_2d_cartesian(t, data_ex, data_ey, data_ez) ==
    IF PathUnder(t, "fieldsPath").res # OK
    THEN [tree |-> t, res |-> PathUnder(t, "fieldsPath").res]
    ELSE LET full_e_path == PathUnder(t, "fieldsPath").path \o <<"E">>
             c == ECreate(t, full_e_path, data_ex, data_ey, data_ez)
         IN  IF c.res # OK THEN c
             ELSE [tree |-> EFill(EComponentMeta(EGroupMeta(c.tree, full_e_path), full_e_path),
                                  full_e_path, data_ex, data_ey, data_ez),
                   res  |-> OK]

-----------------------------------------------------------------------------
(* write_particles *)

ChargeAttrs ==
    [value         |-> "-1.0",
     unitSI        |-> "1.60217657e-19",
     unitDimension |-> <<"0.0", "0.0", "1.0", "1.0", "0.0", "0.0", "0.0">>]

MassAttrs ==
    [value         |-> "1.0",
     unitSI        |-> "9.10938291e-31",
     unitDimension |-> <<"0.0", "1.0", "0.0", "0.0", "0.0", "0.0", "0.0">>]

WeightingAttrs ==
    [unitSI        |-> "1.0",
     unitDimension |-> <<"0.0", "0.0", "0.0", "0.0", "0.0", "0.0", "0.0">>]

PositionAttrs ==
    [unitSI        |-> "1.e-9",
     unitDimension |-> <<"1.0", "0.0", "0.0", "0.0", "0.0", "0.0", "0.0">>]

MomentumAttrs ==
    [unitSI        |-> "1.60217657e-19",
     unitDimension |-> <<"1.0", "1.0", "-1.0", "0.0", "0.0", "0.0", "0.0">>]

\* The constant scalar attributes: the marker groups charge and mass, then
\* the long name of the species.
ParticleConstants(t, e) ==
    LET c1 == create_group(t, e \o <<"charge">>)
        c2 == IF c1.res = OK
              THEN create_group(SetAttrs(c1.tree, e \o <<"charge">>, ChargeAttrs), e \o <<"mass">>)
              ELSE c1
    IN  IF c2.res = OK
        THEN [tree |-> SetAttrs(SetAttrs(c2.tree, e \o <<"mass">>, MassAttrs),
                                e, [longName |-> "My first electron species"]),
              res  |-> OK]
        ELSE c2

\* The three component datasets of a vector attribute, then the attributes of its group.
ParticleVector(st, v, attrs) ==
    LET cx == IF st.res = OK THEN create_dataset(st.tree, v \o <<"x">>, <<NParticles>>) ELSE st
        cy == IF cx.res = OK THEN create_dataset(cx.tree, v \o <<"y">>, <<NParticles>>) ELSE cx
        cz == IF cy.res = OK THEN create_dataset(cy.tree, v \o <<"z">>, <<NParticles>>) ELSE cy
    IN  IF cz.res = OK THEN [tree |-> SetAttrs(cz.tree, v, attrs), res |-> OK] ELSE cz

\* The per-particle arrays: weighting, position, momentum.
ParticleArrays(t, e) ==
    LET cw == create_dataset(t, e \o <<"weighting">>, <<NParticles>>)
        w  == IF cw.res = OK
              THEN [tree |-> SetAttrs(cw.tree, e \o <<"weighting">>, WeightingAttrs), res |-> OK]
              ELSE cw
    IN  ParticleVector(ParticleVector(w, e \o <<"position">>, PositionAttrs),
                       e \o <<"momentum">>, MomentumAttrs)

\* The name write_particles calls for the PIC attributes of the species
CalledAttrHelper == "addEDPICAttrParticles"

write_particles(t) ==
    IF PathUnder(t, "particlesPath").res # OK
    THEN [tree |-> t, res |-> PathUnder(t, "particlesPath").res]
    ELSE LET e == PathUnder(t, "particlesPath").path \o <<"electrons">>
             c == ParticleConstants(t, e)
         IN  IF c.res # OK THEN c
             ELSE IF CalledAttrHelper \notin ModuleGlobals
             THEN [tree |-> c.tree, res |-> NameErrorParticles]
             ELSE ParticleArrays(add_EDPIC_attr_particles(c.tree, e), e)

-----------------------------------------------------------------------------
(* A caller of the functions: any sequence of calls on an open, new file *)

NoCall == [op |-> "none", args |-> <<>>, res |-> OK]

NoLocals == [data_rho0 |-> <<>>, data_rho1 |-> <<>>, data_ex |-> <<>>,
             data_ey |-> <<>>, data_ez |-> <<>>]

Init ==
    /\ pc = "lib"
    /\ f = "open"
    /\ tree = EmptyFile
    /\ disk = <<EmptyFile>>
    /\ call = NoCall
    /\ locals = NoLocals
    /\ out = <<>>
    /\ trace = <<>>

Returns(op, args, r) ==
    /\ tree' = r.tree
    /\ call' = [op |-> op, args |-> args, res |-> r.res]

\* The root record of a file is written once, at any point of the sequence.
CallSetupRootAttr ==
    /\ pc = "lib"
    /\ ~HasAttr(tree, <<>>, "basePath")
    /\ \E n \in Iterations, d \in Dates :
          Returns("setup_root_attr", <<n>>, setup_root_attr(tree, n, d))
    /\ UNCHANGED <<pc, f, disk, locals, out, trace>>

CallWriteRho ==
    /\ pc = "lib"
    /\ \E s \in Shapes :
          \E s1 \in ShapesNear(s) :
             LET mode0 == Arr(s, 0)
                 mode1 == CArr(s1, 0)
             IN  Returns("write_rho_cylindrical", <<mode0, mode1>>,
                         write_rho_cylindrical(tree, mode0, mode1))
    /\ UNCHANGED <<pc, f, disk, locals, out, trace>>

CallWriteE ==
    /\ pc = "lib"
    /\ \E s \in Shapes :
          \E sz \in ShapesNear(s) :
             LET data_ex == Arr(s, 0)
                 data_ey == Arr(s, 1)
                 data_ez == Arr(sz, 2)
             IN  Returns("write_e_2d_cartesian", <<data_ex, data_ey, data_ez>>,
                         write_e_2d_cartesian(tree, data_ex, data_ey, data_ez))
    /\ UNCHANGED <<pc, f, disk, locals, out, trace>>

CallWriteParticles ==
    /\ pc = "lib"
    /\ Returns("write_particles", <<>>, write_particles(tree))
    /\ UNCHANGED <<pc, f, disk, locals, out, trace>>

Next ==
    \/ CallSetupRootAttr
    \/ CallWriteRho
    \/ CallWriteE
    \/ CallWriteParticles

Spec == Init /\ [][Next]_vars

-----------------------------------------------------------------------------
(* __main__: pc names the statement to execute next *)

MainShape == <<MainH, MainW>>

\* What example.h5 may hold before a run: nothing (absent), an empty file,
\* a file of another origin, the file a previous run left.
ForeignFile ==
    LET c == create_dataset(EmptyFile, <<"old", "table">>, <<2>>).tree
    IN  SetAttrs(SetAttrs(c, <<>>, [owner |-> "someone", date |-> "1999-01-01"]),
                 <<"old", "table">>, [unit |-> "m"])

PreviousRun ==
    LET r0 == setup_root_attr(EmptyFile, 0, "2015-05-31 09:00:00 +0200").tree
        r1 == write_rho_cylindrical(r0, Rand(MainShape, 0),
                                    Complex(Rand(MainShape, 1), Rand(MainShape, 2))).tree
    IN  write_e_2d_cartesian(r1, Rand(MainShape, 0), Rand(MainShape, 1), Rand(MainShape, 2)).tree

PriorContents == {<<>>, <<EmptyFile>>, <<ForeignFile>>, <<PreviousRun>>}

MainInit ==
    /\ pc = "open"
    /\ f = "none"
    /\ tree = EmptyFile
    /\ disk \in PriorContents
    /\ call = NoCall
    /\ locals = NoLocals
    /\ out = <<>>
    /\ trace = <<>>

\* Mutant: the file opened in mode "a", which keeps what it holds.
FileOpenAppend(prior) == IF prior = <<>> THEN EmptyFile ELSE prior[1]

\* h5.File("example.h5", "w"): create the file, truncate if it exists
FileOpenW(prior) == EmptyFile

\* f = h5.File("example.h5", "w")
MainOpen ==
    /\ pc = "open"
    /\ f' = "open"
    /\ tree' = FileOpenW(disk)
    /\ disk' = <<FileOpenW(disk)>>
    /\ pc' = "setup_root_attr"
    /\ trace' = Append(trace, "open")
    /\ UNCHANGED <<call, locals, out>>

\* A call of a function of the module by __main__: an exception is not
\* caught, it ends the run.
MainCalls(op, args, r, next) ==
    /\ f = "open"
    /\ Returns(op, args, r)
    /\ pc' = IF r.res = OK THEN next ELSE "raised"
    /\ UNCHANGED <<f, disk, locals, out>>

\* setup_root_attr(f, iteration=0)
MainSetupRootAttr ==
    /\ pc = "setup_root_attr"
    /\ \E d \in Dates :
          MainCalls("setup_root_attr", <<0>>, setup_root_attr(tree, 0, d), "data_rho0")
    /\ trace' = Append(trace, "root")

\* data_rho0 = np.random.rand(32,64)
MainDataRho0 ==
    /\ pc = "data_rho0"
    /\ \E k \in Seeds : locals' = [locals EXCEPT !.data_rho0 = Rand(MainShape, k)]
    /\ pc' = "data_rho1"
    /\ UNCHANGED <<f, tree, disk, call, out, trace>>

\* data_rho1 = np.random.rand(32,64) + 1.j*np.random.rand(32,64)
MainDataRho1 ==
    /\ pc = "data_rho1"
    /\ \E k1 \in Seeds, k2 \in Seeds :
          locals' = [locals EXCEPT
                       !.data_rho1 = Complex(Rand(MainShape, k1), Rand(MainShape, k2))]
    /\ pc' = "write_rho_cylindrical"
    /\ UNCHANGED <<f, tree, disk, call, out, trace>>

\* write_rho_cylindrical(f, data_rho0, data_rho1)
MainWriteRho ==
    /\ pc = "write_rho_cylindrical"
    /\ MainCalls("write_rho_cylindrical", <<locals.data_rho0, locals.data_rho1>>,
                 write_rho_cylindrical(tree, locals.data_rho0, locals.data_rho1), "data_ex")
    /\ trace' = Append(trace, "rho")

\* data_ex = np.random.rand(32,64); data_ey = ...; data_ez = ...
MainDataE ==
    /\ pc \in {"data_ex", "data_ey", "data_ez"}
    /\ \E k \in Seeds :
          locals' = IF pc = "data_ex" THEN [locals EXCEPT !.data_ex = Rand(MainShape, k)]
                    ELSE IF pc = "data_ey" THEN [locals EXCEPT !.data_ey = Rand(MainShape, k)]
                    ELSE [locals EXCEPT !.data_ez = Rand(MainShape, k)]
    /\ pc' = IF pc = "data_ex" THEN "data_ey"
             ELSE IF pc = "data_ey" THEN "data_ez"
             ELSE "write_e_2d_cartesian"
    /\ UNCHANGED <<f, tree, disk, call, out, trace>>

\* write_e_2d_cartesian( f, data_ex, data_ey, data_ez )
MainWriteE ==
    /\ pc = "write_e_2d_cartesian"
    /\ MainCalls("write_e_2d_cartesian", <<locals.data_ex, locals.data_ey, locals.data_ez>>,
                 write_e_2d_cartesian(tree, locals.data_ex, locals.data_ey, locals.data_ez),
                 "close")
    /\ trace' = Append(trace, "E")

\* The storage layer fails under a writer (an I/O error of h5py): the
\* exception is not caught either.  Modelled at the writer's first access.
MainIOError ==
    /\ pc \in {"setup_root_attr", "write_rho_cylindrical", "write_e_2d_cartesian"}
    /\ f = "open"
    /\ pc' = "raised"
    /\ call' = [op |-> pc, args |-> <<>>, res |-> "OSError"]
    /\ UNCHANGED <<f, tree, disk, locals, out, trace>>

\* f.close(): the content is flushed to the file
MainClose ==
    /\ pc = "close"
    /\ f = "open"
    /\ f' = "closed"
    /\ disk' = <<tree>>
    /\ pc' = "print"
    /\ trace' = Append(trace, "close")
    /\ UNCHANGED <<tree, call, locals, out>>

\* Mutant: the confirmation printed before the file is closed.
MainPrintBeforeClose ==
    /\ pc = "close"
    /\ out' = Append(out, "File example.h5 created!")
    /\ pc' = "done"
    /\ trace' = Append(trace, "print")
    /\ UNCHANGED <<f, tree, disk, call, locals>>

\* print("File example.h5 created!")
MainPrint ==
    /\ pc = "print"
    /\ out' = Append(out, "File example.h5 created!")
    /\ pc' = "done"
    /\ trace' = Append(trace, "print")
    /\ UNCHANGED <<f, tree, disk, call, locals>>

MainNext ==
    \/ MainOpen
    \/ MainSetupRootAttr
    \/ MainDataRho0
    \/ MainDataRho1
    \/ MainWriteRho
    \/ MainDataE
    \/ MainWriteE
    \/ MainIOError
    \/ MainClose
    \/ MainPrint

MainSpec == MainInit /\ [][MainNext]_vars

-----------------------------------------------------------------------------
(* Vocabulary of the claims *)

IsPrefix(a, b) == Len(a) <= Len(b) /\ SubSeq(b, 1, Len(a)) = a

\* path p lies below the group prefix: "prefix/..." 
Below(p, prefix) == Len(p) > Len(prefix) /\ IsPrefix(prefix, p)

RootSet(t) == HasAttr(t, <<>>, "basePath")

\* "/data/n/fields/" and "/data/n/particles/", for a file whose root attributes are set
FieldsPath(t) == t[<<>>].attrs["basePath"] \o t[<<>>].attrs["fieldsPath"]
ParticlesPath(t) == t[<<>>].attrs["basePath"] \o t[<<>>].attrs["particlesPath"]

RhoPath(t) == FieldsPath(t) \o <<"rho">>
EPath(t) == FieldsPath(t) \o <<"E">>
ElectronsPath(t) == ParticlesPath(t) \o <<"electrons">>

Writers == {"write_rho_cylindrical", "write_e_2d_cartesian", "write_particles"}

\* This step is a call of op (a step that repeats a call and changes nothing stutters).
Called(op) ==
    /\ call'.op = op
    /\ \/ call.op # op
       \/ call'.res # call.res
       \/ call'.args # call.args
       \/ tree' # tree

Created == DOMAIN tree' \ DOMAIN tree

DatasetsIn(t, paths) == {p \in paths : t[p].kind = "dataset"}

Children(t, g) == {p \in DOMAIN t : Len(p) = Len(g) + 1 /\ IsPrefix(g, p)}

Inexact(a) == \E idx \in DOMAIN a.data : ToF4(a.data[idx]) # a.data[idx]

-----------------------------------------------------------------------------
(* C1 *)

\* The rho dataset at p holds the three layers of (mode0, mode1), each
\* value passed through conv.
RhoHolds(t, p, mode0, mode1, conv(_)) ==
    /\ p \in DOMAIN t
    /\ t[p].kind = "dataset"
    /\ t[p].shape = <<3, mode0.shape[1], mode0.shape[2]>>
    /\ \A idx \in Idx(mode0.shape) :
          /\ t[p].data[<<0, idx[1], idx[2]>>] = conv(mode0.data[idx])
          /\ t[p].data[<<1, idx[1], idx[2]>>] = conv(mode1.data[idx].re)
          /\ t[p].data[<<2, idx[1], idx[2]>>] = conv(mode1.data[idx].im)

Same(x) == x

\* C1 as stated, read for a file that holds no rho yet: for equal shapes and
\* root attributes set, write_rho_cylindrical completes and layer 0 equals
\* mode0, layer 1 the real part and layer 2 the imaginary part of mode1,
\* element for element.
C1_AsStated ==
    [][(Called("write_rho_cylindrical") /\ RootSet(tree)
          /\ RhoPath(tree) \notin DOMAIN tree
          /\ call'.args[1].shape = call'.args[2].shape)
       => (call'.res = OK
             /\ RhoHolds(tree', RhoPath(tree), call'.args[1], call'.args[2], Same))]_vars

\* C1 amended: for equal shapes, on a file whose root attributes are set and
\* that holds no rho yet, write_rho_cylindrical completes and leaves a rho
\* dataset of shape (3, H, W) whose layers equal mode0, the real part and the
\* imaginary part of mode1, each value rounded to single precision.
C1_RhoLayersRounded ==
    [][(Called("write_rho_cylindrical") /\ RootSet(tree)
          /\ RhoPath(tree) \notin DOMAIN tree
          /\ call'.args[1].shape = call'.args[2].shape)
       => (call'.res = OK
             /\ RhoHolds(tree', RhoPath(tree), call'.args[1], call'.args[2], ToF4))]_vars

\* A rho of more than one cell was written from values that single
\* precision does not hold.
C1_Witness ==
    /\ call.op = "write_rho_cylindrical"
    /\ call.res = OK
    /\ Cardinality(DOMAIN call.args[1].data) > 1
    /\ Inexact(call.args[1])
    /\ RhoPath(tree) \in DOMAIN tree

-----------------------------------------------------------------------------
(* C2 *)

\* C2: for shapes that differ, on a file whose root attributes are set and
\* that holds no rho yet, write_rho_cylindrical fails with the shape-mismatch
\* error and leaves the tree of the file as it was.
C2_NoPartialWrite ==
    [][(Called("write_rho_cylindrical") /\ RootSet(tree)
          /\ RhoPath(tree) \notin DOMAIN tree
          /\ call'.args[1].shape # call'.args[2].shape)
       => (call'.res = ShapeMismatch /\ tree' = tree)]_vars

-----------------------------------------------------------------------------
(* C3 *)

HasUnits(t, p) ==
    /\ HasAttr(t, p, "unitSI")
    /\ HasAttr(t, p, "unitDimension")
    /\ Len(t[p].attrs["unitDimension"]) = UnitDimensionLen

\* C3: after a field or species writer completes, every dataset it created
\* carries unitSI and a 7-element unitDimension, on itself or on its group.
C3_UnitsEverywhere ==
    [][(\E w \in Writers : Called(w) /\ call'.res = OK)
       => \A p \in DatasetsIn(tree', Created) :
             HasUnits(tree', p) \/ HasUnits(tree', Parent(p))]_vars

-----------------------------------------------------------------------------
(* C4 *)

SharedEAttrs == {"geometry", "gridSpacing", "gridGlobalOffset", "gridUnitSI", "dataOrder"}

EComponents(t) == {EPath(t) \o <<c>> : c \in {"x", "y", "z"}}

\* Component c of E holds array a, each value passed through conv.
EHolds(t, c, a, conv(_)) ==
    LET p == EPath(t) \o <<c>>
    IN  /\ p \in DOMAIN t
        /\ t[p].kind = "dataset"
        /\ t[p].shape = a.shape
        /\ \A idx \in Idx(a.shape) : t[p].data[idx] = conv(a.data[idx])

\* Exactly three datasets under one group, which alone carries the grid attributes.
ELayout(t) ==
    /\ DatasetsIn(tree', Created) = EComponents(t)
    /\ tree'[EPath(t)].kind = "group"
    /\ Children(tree', EPath(t)) = EComponents(t)
    /\ SharedEAttrs \subseteq DOMAIN tree'[EPath(t)].attrs
    /\ \A p \in EComponents(t) : SharedEAttrs \cap DOMAIN tree'[p].attrs = {}

EqualShapes(args) == args[1].shape = args[2].shape /\ args[2].shape = args[3].shape

\* C4 as stated, read for a file whose root attributes are set and that
\* holds no E yet: for equal shapes, write_e_2d_cartesian creates exactly the
\* datasets E/x, E/y, E/z, shape and contents equal to the inputs, the grid
\* attributes once, on the group.
C4_AsStated ==
    [][(Called("write_e_2d_cartesian") /\ EqualShapes(call'.args)
          /\ RootSet(tree) /\ EPath(tree) \notin DOMAIN tree)
       => /\ call'.res = OK
          /\ ELayout(tree)
          /\ EHolds(tree', "x", call'.args[1], Same)
          /\ EHolds(tree', "y", call'.args[2], Same)
          /\ EHolds(tree', "z", call'.args[3], Same)]_vars

\* C4 amended: for equal shapes, on a file whose root attributes are set and
\* that holds no E yet, write_e_2d_cartesian creates exactly the datasets
\* E/x, E/y, E/z under one E group, each of the shape of its input and
\* holding its input's values rounded to single precision; geometry,
\* gridSpacing, gridGlobalOffset, gridUnitSI and dataOrder are on the group
\* and on no component.
C4_EComponentsRounded ==
    [][(Called("write_e_2d_cartesian") /\ EqualShapes(call'.args)
          /\ RootSet(tree) /\ EPath(tree) \notin DOMAIN tree)
       => /\ call'.res = OK
          /\ ELayout(tree)
          /\ EHolds(tree', "x", call'.args[1], ToF4)
          /\ EHolds(tree', "y", call'.args[2], ToF4)
          /\ EHolds(tree', "z", call'.args[3], ToF4)]_vars

\* An E of equal-shaped components of more than one cell was written from
\* values that single precision does not hold.
C4_Witness ==
    /\ call.op = "write_e_2d_cartesian"
    /\ call.res = OK
    /\ EqualShapes(call.args)
    /\ Cardinality(DOMAIN call.args[1].data) > 1
    /\ Inexact(call.args[1])
    /\ EComponents(tree) \subseteq DOMAIN tree

-----------------------------------------------------------------------------
(* C5 *)

ParticleDatasets(t) ==
    {ElectronsPath(t) \o q :
        q \in {<<"weighting">>,
               <<"position", "x">>, <<"position", "y">>, <<"position", "z">>,
               <<"momentum", "x">>, <<"momentum", "y">>, <<"momentum", "z">>}}

\* C5: a call of write_particles on a file whose root attributes are set
\* (and that holds no species yet) completes and leaves exactly the seven
\* datasets of length 128 under particles/electrons, with unitSI 1.0 on
\* weighting, 1.e-9 on the position group, 1.60217657e-19 on the momentum group.
C5_SevenDatasets ==
    [][(Called("write_particles") /\ RootSet(tree)
          /\ ElectronsPath(tree) \notin DOMAIN tree)
       => /\ call'.res = OK
          /\ DatasetsIn(tree', Created) = ParticleDatasets(tree)
          /\ \A p \in ParticleDatasets(tree) : tree'[p].shape = <<NParticles>>
          /\ tree'[ElectronsPath(tree) \o <<"weighting">>].attrs["unitSI"] = "1.0"
          /\ tree'[ElectronsPath(tree) \o <<"position">>].attrs["unitSI"] = "1.e-9"
          /\ tree'[ElectronsPath(tree) \o <<"momentum">>].attrs["unitSI"]
                = "1.60217657e-19"]_vars

-----------------------------------------------------------------------------
(* C8 *)

\* C8: after write_e_2d_cartesian completes, each of E/x, E/y, E/z carries
\* exactly one attribute, position, [0.0, 0.5] on x, [0.5, 0.0] on y and
\* [0.0, 0.0] on z, and the E group carries no position.
C8_StaggerPositions ==
    (call.op = "write_e_2d_cartesian" /\ call.res = OK)
    => /\ \A p \in EComponents(tree) : DOMAIN tree[p].attrs = {"position"}
       /\ tree[EPath(tree) \o <<"x">>].attrs["position"] = <<"0.0", "0.5">>
       /\ tree[EPath(tree) \o <<"y">>].attrs["position"] = <<"0.5", "0.0">>
       /\ tree[EPath(tree) \o <<"z">>].attrs["position"] = <<"0.0", "0.0">>
       /\ "position" \notin DOMAIN tree[EPath(tree)].attrs

\* write_e_2d_cartesian has completed.
C8_Witness ==
    /\ call.op = "write_e_2d_cartesian"
    /\ call.res = OK
    /\ EComponents(tree) \subseteq DOMAIN tree

-----------------------------------------------------------------------------
(* C9 *)

\* C9: a writer called on a file without basePath fails reading the path
\* attributes and changes nothing; every file that holds a node beside
\* the root has had its root attributes written.
C9_RootFirst ==
    /\ [][(\E w \in Writers : Called(w) /\ ~RootSet(tree))
          => (call'.res = KeyError /\ tree' = tree)]_vars
    /\ [](DOMAIN tree # {<<>>} => RootSet(tree))

\* A writer was called before setup_root_attr.
C9_Witness ==
    /\ call.op \in Writers
    /\ call.res = KeyError
    /\ ~RootSet(tree)

-----------------------------------------------------------------------------
(* C10 *)

UnderPaths(t, p) == Below(p, FieldsPath(t)) \/ Below(p, ParticlesPath(t))

\* The groups h5py creates on the way to a path below fields/ or particles/
OnTheWay(t, p) == IsPrefix(p, FieldsPath(t)) \/ IsPrefix(p, ParticlesPath(t))

\* C10 as stated: after setup_root_attr, every group and dataset a writer
\* creates has a path that
\* starts with basePath + fieldsPath or basePath + particlesPath, and no
\* writer changes the attributes of the root.
C10_AsStated ==
    [][(RootSet(tree) /\ \E w \in Writers : Called(w))
       => /\ \A p \in Created : UnderPaths(tree, p)
          /\ tree'[<<>>].attrs = tree[<<>>].attrs]_vars

\* C10 amended: after setup_root_attr, every dataset a writer creates, and
\* every group except the
\* groups on the way (/data, /data/n, /data/n/fields, /data/n/particles,
\* which h5py creates when they are missing), has a path that starts with
\* basePath + fieldsPath or basePath + particlesPath, and no writer changes
\* the attributes of the root.
C10_UnderPathsOrOnTheWay ==
    [][(RootSet(tree) /\ \E w \in Writers : Called(w))
       => /\ \A p \in Created :
               \/ UnderPaths(tree, p)
               \/ tree'[p].kind = "group" /\ OnTheWay(tree, p)
          /\ tree'[<<>>].attrs = tree[<<>>].attrs]_vars

\* Fields and particles were written under iteration 1.
C10_Witness ==
    /\ RootSet(tree)
    /\ tree[<<>>].attrs["basePath"] = <<"data", "1">>
    /\ RhoPath(tree) \in DOMAIN tree
    /\ EComponents(tree) \subseteq DOMAIN tree
    /\ ElectronsPath(tree) \in DOMAIN tree

-----------------------------------------------------------------------------
(* C6 *)

MainEvents == <<"open", "root", "rho", "E", "close", "print">>

Confirmation == <<"File example.h5 created!">>

\* C6: the run performs open, root attributes, rho, E, close, print in this
\* order; a run that reaches its end has closed the handle and printed the
\* confirmation after the close; once the handle is closed it stays closed
\* and the file is not written; a run in which a writer has raised keeps
\* the handle open, prints nothing and does nothing more.
C6_MainOrder ==
    /\ [](IsPrefix(trace, MainEvents))
    /\ [](pc = "done" => (trace = MainEvents /\ f = "closed" /\ out = Confirmation))
    /\ [](out # <<>> => (f = "closed" /\ out = Confirmation))
    /\ [](pc = "raised" => (f = "open" /\ out = <<>>))
    /\ [][f = "closed" => (f' = "closed" /\ tree' = tree /\ disk' = disk)]_vars
    /\ [][pc = "raised" => UNCHANGED vars]_vars

\* The run has reached its end.
C6_Witness == pc = "done" /\ trace = MainEvents /\ f = "closed"

\* A writer has raised after rho was written.
C6_WitnessRaised == pc = "raised" /\ trace = <<"open", "root", "rho">>

-----------------------------------------------------------------------------
(* C7 *)

\* The nodes of a tree, each with its kind and the names of its attributes
Structure(t) == {<<p, t[p].kind, DOMAIN t[p].attrs>> : p \in DOMAIN t}

FieldAttrNames ==
    {"fieldSolver", "fieldSolverOrder", "fieldSmoothing", "currentSmoothing",
     "chargeCorrection", "time", "timeUnitSI", "geometry", "gridSpacing",
     "gridGlobalOffset", "gridUnitSI", "dataOrder", "unitDimension"}

\* What a run of __main__ leaves in example.h5
MainStructure ==
    {<<<<>>, "group",
       {"version", "basePath", "fieldsPath", "particlesPath", "iterationEncoding",
        "iterationFormat", "author", "software", "date", "comment"}>>,
     <<<<"data">>, "group", {}>>,
     <<<<"data", "0">>, "group", {}>>,
     <<<<"data", "0", "fields">>, "group", {}>>,
     <<<<"data", "0", "fields", "rho">>, "dataset",
       FieldAttrNames \cup {"geometryParameters", "unitSI", "position"}>>,
     <<<<"data", "0", "fields", "E">>, "group", FieldAttrNames>>,
     <<<<"data", "0", "fields", "E", "x">>, "dataset", {"position"}>>,
     <<<<"data", "0", "fields", "E", "y">>, "dataset", {"position"}>>,
     <<<<"data", "0", "fields", "E", "z">>, "dataset", {"position"}>>}

\* C7: whatever example.h5 held before, a run that completes leaves the
\* same groups, datasets and attribute names in it, and nothing else.
C7_Overwrites ==
    pc \in {"print", "done"} => (disk # <<>> /\ Structure(disk[1]) = MainStructure)

\* A run has completed.
C7_Witness == pc = "done" /\ disk # <<>> /\ Structure(disk[1]) = MainStructure

====
